---- MODULE Spec2Model ----
(***************************************************************************)
(* Model of the DOC ingestion scripts under src/api/src:                   *)
(*   - load_to_postgres.py : PostgresLoader (load, archive, directory walk)*)
(*   - doc_api.py          : process_campsites_details (detail fetch loop) *)
(*   - api_client.py / utils.py : APIClient.get_data_json over a session   *)
(*     mounted with urllib3 Retry                                          *)
(*   - doc_api.py          : DOCAPIClient, get_doc                         *)
(*   - doc_master.py       : the orchestrator script                       *)
(*   - utils.py            : save_response_to_file, DBConnection           *)
(* The specifications of the module: Spec and SpecRerun (the loader),      *)
(* SpecDelta (the detail loop), SpecFetch (one HTTP fetch), SpecStore (a   *)
(* save and its read back), SpecDoc (get_doc calls and the orchestrator)   *)
(* and SpecScope (scoped sessions and connections).                        *)
(***************************************************************************)
EXTENDS Integers, Sequences, FiniteSets, TLC

VARIABLES
    \* ---- loader (load_to_postgres.py) ----
    base_dir,     \* argument of process_directory: a path, as its segments
    truncate,     \* argument of process_directory
    staged0,      \* the files under base_dir when process_directory is called
    fs,           \* the filesystem: path -> content
    table,        \* committed rows of the destination table
    outcome,      \* per staged file: how its loop iteration ended
    truncs,       \* number of TRUNCATE statements committed in this call
    pc,           \* position of process_directory
    root,         \* directory os.walk is currently yielding
    listing,      \* file names of root not yet iterated
    dirsLeft,     \* subdirectories os.walk has still to yield
    prev,         \* what an earlier process_directory call over base_dir left
    \* ---- detail loop (doc_api.py) ----
    payload,      \* parsed content of the campsites listing file
    loaded_ids,   \* asset ids the database already holds
    db_fault,     \* whether a query against the database fails
    asset_ids,    \* list built by process_campsites_details
    fetched,      \* asset ids get_doc_campsite_detail was called with, in order
    results,      \* what each of those calls returned
    dpc,          \* position of process_campsites_details
    \* ---- one fetch (api_client.py, utils.py) ----
    variant,      \* which get_data_json is running
    wraps_json,   \* the installed requests raises its own JSONDecodeError
    format_ok,    \* url.format(**kwargs) finds every placeholder
    history,      \* responses the server has given to this fetch
    total,        \* Retry.total still left
    fpc,          \* position of get_data_json
    ret,          \* what get_data_json gave its caller
    \* File Store
    response_data, \* the payload handed to save_response_to_file
    target,       \* the file_path and file_name handed to it
    disk,         \* directories that exist and the text of each file
    disk0,        \* the disk before the save
    saved_file,   \* what save_response_to_file returned
    io_fault,     \* the I/O error the save met, if any
    readback,     \* what json.load gave for the saved file
    spc,          \* position of the save and read back
    saver,        \* which save is called: utils, or APIClient's through get_doc
    save_out,     \* exception that left the save, exception get_doc caught
    now,          \* the clock
    \* DOC client and orchestrator
    env,          \* config file, keys and environment DOCAPIClient finds
    calls,        \* the get_doc calls made so far and what each returned
    doc_client,   \* the DOCAPIClient doc_master.py constructs
    master,       \* position of doc_master.py
    \* scoped resources
    scope,        \* which scope runs
    res,          \* the session or connection of the scope
    trail,        \* what the statements of the scope's body did
    pending,      \* the exception raised in the scope, if any
    xpc,          \* position of the scope
    db_rows,      \* number of committed rows of the table insert_data writes
    inserts       \* what each insert_data call returned and whether it committed

varsLoad == <<base_dir, truncate, staged0, fs, table, outcome, truncs, pc,
              root, listing, dirsLeft, prev>>
varsDelta == <<payload, loaded_ids, db_fault, asset_ids, fetched, results, dpc>>
varsFetch == <<variant, wraps_json, format_ok, history, total, fpc, ret>>
varsStore == <<response_data, target, disk0, saved_file, io_fault, readback,
               spc, saver, save_out>>
varsShared == <<now, disk>>
varsDoc == <<env, calls, doc_client, master>>
varsScope == <<scope, res, trail, pending, xpc, db_rows, inserts>>
vars == <<varsLoad, varsDelta, varsFetch, varsStore, varsShared, varsDoc,
          varsScope>>

\* ------------------------------------------------------------------ bounds
MaxFiles == 2      \* files under base_dir
MaxPrior == 1      \* rows in the table before the call
MaxListing == 3    \* elements of the listing payload

Range(s) == {s[i] : i \in 1..Len(s)}

(***************************************************************************)
(* Loader                                                                  *)
(***************************************************************************)
SubDirs == {"s1", "s2"}
Stems == {"a", "b"}
FileNames == {[stem |-> s, ext |-> "json"] : s \in Stems}
                 \cup {[stem |-> "a", ext |-> "txt"]}
BaseDirs == {<<"data", "raw", "doc">>, <<"data", "doc">>}

\* file.endswith('.json')
EndsWithJson(file) == file.ext = "json"

\* os.path.join(root, file)
Join(dir, file) == [dir |-> dir, name |-> file]

\* os.path.basename(json_file)
Basename(path) == path.name

\* base_dir.replace('raw', 'archive')
ReplaceRaw(dir) ==
    [i \in 1..Len(dir) |-> IF dir[i] = "raw" THEN "archive" ELSE dir[i]]

IsPrefix(d, e) == Len(d) <= Len(e) /\ SubSeq(e, 1, Len(d)) = d

StagingPaths(b) ==
    {Join(b \o rel, n) : rel \in {<<>>} \cup {<<s>> : s \in SubDirs},
                         n \in FileNames}

\* a possible content of the staging directory: which files exist, and
\* whether each holds valid JSON
Stagings(b) ==
    LET sets == {S \in SUBSET StagingPaths(b) : Cardinality(S) <= MaxFiles}
        vals == UNION {[S -> BOOLEAN] : S \in sets}
    IN  {[p \in DOMAIN v |-> [orig |-> p, valid |-> v[p]]] :
            v \in {w \in vals : \A p \in DOMAIN w :
                                   ~EndsWithJson(p.name) => ~w[p]}}

PriorRow == [file_name |-> Join(<<"earlier">>, [stem |-> "a", ext |-> "json"])]

\* a rollback that leaves the statements of the transaction in effect
Rollback_KeepWork(committed, work) == work

\* self.conn.commit() / self.conn.rollback()
Commit(committed, work) == work
Rollback(committed, work) == committed

LoadFailure(err, tbl) ==
    [ok |-> FALSE, err |-> err, table |-> tbl, truncated |-> FALSE]

\* a variant that resets the table before the file is parsed
LoadJsonToTable_TruncateFirst(tbl, content, json_file, trunc, fault) ==
    LET t0 == IF trunc THEN Commit(tbl, <<>>) ELSE tbl IN
    IF fault = "io" THEN LoadFailure("IOError", t0)
    ELSE IF ~content.valid THEN LoadFailure("JSONDecodeError", t0)
    ELSE [ok |-> TRUE, err |-> "none",
          table |-> Commit(t0, Append(t0, [file_name |-> json_file])),
          truncated |-> trunc]

\* PostgresLoader.load_json_to_table: fault is the step at which the
\* environment makes the call fail ("none": no step fails)
LoadJsonToTable(tbl, content, json_file, trunc, fault) ==
    IF fault = "io" THEN LoadFailure("IOError", Rollback(tbl, tbl))
    ELSE IF ~content.valid
    THEN LoadFailure("JSONDecodeError", Rollback(tbl, tbl))
    ELSE IF trunc /\ fault = "truncate"
    THEN LoadFailure("DatabaseError", Rollback(tbl, tbl))
    ELSE LET work1 == IF trunc THEN <<>> ELSE tbl IN
         IF fault = "insert"
         THEN LoadFailure("DatabaseError", Rollback(tbl, work1))
         ELSE LET work2 == Append(work1, [file_name |-> json_file]) IN
              IF fault = "commit"
              THEN LoadFailure("DatabaseError", Rollback(tbl, work2))
              ELSE [ok |-> TRUE, err |-> "none",
                    table |-> Commit(tbl, work2), truncated |-> trunc]

\* shutil.move(src, dst): a rename, replacing whatever dst names
Move(fsys, src, dst) ==
    [p \in (DOMAIN fsys \ {src}) \cup {dst} |->
        IF p = dst THEN fsys[src] ELSE fsys[p]]

\* PostgresLoader.archive_json_file
ArchiveJsonFile(fsys, json_file, archive_dir, fault) ==
    IF fault \in {"makedirs", "move"}
    THEN [ok |-> FALSE, fs |-> fsys]
    ELSE [ok |-> TRUE,
          fs |-> Move(fsys, json_file, Join(archive_dir, Basename(json_file)))]

\* a handler that gives up on the first failing file
AfterFileError_Raise == "raised"

\* process_directory's inner except: log and continue
AfterFileError == "walk"

ArchiveDir == ReplaceRaw(base_dir)

NamesIn(fsys, dir) == {p.name : p \in {q \in DOMAIN fsys : q.dir = dir}}
SubDirsOf(fsys, b) ==
    {p.dir : p \in {q \in DOMAIN fsys : IsPrefix(b, q.dir) /\ q.dir # b}}

LoadFaults == {"none", "io", "truncate", "insert", "commit"}
ArchiveFaults == {"none", "makedirs", "move"}

NoPrev == [ran |-> FALSE, outcome |-> <<>>, rows |-> 0]

InitLoad ==
    /\ prev = NoPrev
    /\ base_dir \in BaseDirs
    /\ truncate \in BOOLEAN
    /\ staged0 \in Stagings(base_dir)
    /\ fs = staged0
    /\ \E n \in 0..MaxPrior : table = [i \in 1..n |-> PriorRow]
    /\ outcome = [p \in DOMAIN staged0 |-> "pending"]
    /\ truncs = 0
    /\ pc = "start"
    /\ root = <<>>
    /\ listing = {}
    /\ dirsLeft = {}

\* process_directory up to the first directory os.walk yields
StartWalk ==
    /\ pc = "start"
    /\ pc' = "walk"
    /\ root' = base_dir
    /\ listing' = NamesIn(fs, base_dir)
    /\ dirsLeft' = SubDirsOf(fs, base_dir)
    /\ UNCHANGED <<base_dir, truncate, staged0, fs, table, outcome, truncs,
                   prev>>

\* one iteration of `for file in files`
ProcessFile(file, lfault, afault) ==
    /\ pc = "walk"
    /\ file \in listing
    /\ listing' = listing \ {file}
    /\ LET file_path == Join(root, file) IN
       IF ~EndsWithJson(file)
       THEN /\ outcome' = [outcome EXCEPT ![file_path] = "skipped"]
            /\ UNCHANGED <<fs, table, truncs, pc>>
       ELSE LET r == LoadJsonToTable(table, fs[file_path], file_path,
                                     truncate, lfault)
                a == ArchiveJsonFile(fs, file_path, ArchiveDir, afault)
            IN  /\ table' = r.table
                /\ truncs' = IF r.truncated THEN truncs + 1 ELSE truncs
                /\ fs' = IF r.ok THEN a.fs ELSE fs
                /\ outcome' = [outcome EXCEPT ![file_path] =
                                  IF ~r.ok THEN r.err
                                  ELSE IF ~a.ok THEN "ArchiveError"
                                  ELSE "ok"]
                /\ pc' = IF r.ok /\ a.ok THEN "walk" ELSE AfterFileError
    /\ UNCHANGED <<base_dir, truncate, staged0, root, dirsLeft, prev>>

\* os.walk yields the next subdirectory
NextDir ==
    /\ pc = "walk"
    /\ listing = {}
    /\ \E d \in dirsLeft :
          /\ root' = d
          /\ listing' = NamesIn(fs, d)
          /\ dirsLeft' = dirsLeft \ {d}
    /\ UNCHANGED <<base_dir, truncate, staged0, fs, table, outcome, truncs, pc,
                   prev>>

\* os.walk is exhausted: process_directory returns
FinishWalk ==
    /\ pc = "walk"
    /\ listing = {}
    /\ dirsLeft = {}
    /\ pc' = "done"
    /\ UNCHANGED <<base_dir, truncate, staged0, fs, table, outcome, truncs,
                   root, listing, dirsLeft, prev>>

\* process_directory(base_dir, table) is called again, truncate not set,
\* over what the first call left under base_dir
Rerun ==
    /\ pc = "done"
    /\ ~prev.ran
    /\ prev' = [ran |-> TRUE, outcome |-> outcome, rows |-> Len(table)]
    /\ truncate' = FALSE
    /\ staged0' = [p \in {q \in DOMAIN fs : IsPrefix(base_dir, q.dir)} |-> fs[p]]
    /\ outcome' = [p \in {q \in DOMAIN fs : IsPrefix(base_dir, q.dir)} |->
                      "pending"]
    /\ truncs' = 0
    /\ pc' = "start"
    /\ root' = <<>>
    /\ listing' = {}
    /\ dirsLeft' = {}
    /\ UNCHANGED <<base_dir, fs, table>>

ProcessAnyFile ==
    \E file \in FileNames, lfault \in LoadFaults, afault \in ArchiveFaults :
        ProcessFile(file, lfault, afault)

(***************************************************************************)
(* Loader: what the claims speak of                                        *)
(***************************************************************************)
JsonFiles == {p \in DOMAIN staged0 : EndsWithJson(p.name)}
ValidFiles == {p \in JsonFiles : staged0[p].valid}
Committed(p) == outcome[p] \in {"ok", "ArchiveError"}
Attempted(p) == outcome[p] # "pending"
EnvFaults == {"IOError", "DatabaseError", "ArchiveError"}
NoEnvFault == \A p \in DOMAIN outcome : outcome[p] \notin EnvFaults
\* the file that was staged at p is somewhere under the archive directory
InArchive(p) ==
    \E q \in DOMAIN fs : IsPrefix(ArchiveDir, q.dir) /\ fs[q].orig = p
\* the file that was staged at p is still at p
InPlace(p) == p \in DOMAIN fs /\ fs[p].orig = p

\* C1: with truncate set, one process_directory call resets the table
\* exactly once, before the first insert, and never again for a later file.
C1_TruncateOnce ==
    truncate =>
        /\ truncs <= 1
        /\ (pc = "done" /\ (\E p \in JsonFiles : Committed(p))) => truncs = 1

\* C2: after process_directory with truncate set and no database, I/O or
\* archive fault, the table holds exactly one row per valid JSON file
\* (stated for the directories with at least one valid file, in which the
\* table is reset).
C2_RowCountIsValidCount ==
    (pc = "done" /\ truncate /\ NoEnvFault /\ ValidFiles # {}) =>
        Len(table) = Cardinality(ValidFiles)

\* C6: after process_directory over a staging directory with an archive tree
\* of its own, and with no failed archive step, a staged JSON file is in the
\* archive tree if and only if its insert committed.
C6_ArchivedIffCommitted ==
    (/\ pc = "done"
     /\ ArchiveDir # base_dir
     /\ \A p \in JsonFiles : outcome[p] # "ArchiveError") =>
        \A p \in JsonFiles : InArchive(p) <=> Committed(p)

\* C7: loading a file that is not valid JSON ends in a decode failure (never
\* in a success), leaves the table's rows as they were, also with truncate
\* set, and leaves the file where it was, unarchived.
C7_InvalidFileNoEffect ==
    /\ [](\A p \in DOMAIN outcome :
            ~staged0[p].valid =>
                outcome[p] \in {"pending", "skipped", "IOError",
                                "JSONDecodeError"})
    /\ [][\A p \in DOMAIN outcome :
            (outcome[p] = "pending" /\ outcome'[p] = "JSONDecodeError") =>
                /\ ~staged0[p].valid
                /\ table' = table
                /\ truncs' = truncs
                /\ fs' = fs
                /\ InPlace(p)']_vars

C7_Witness ==
    \E p \in JsonFiles :
        /\ outcome[p] = "JSONDecodeError"
        /\ truncate
        /\ Len(table) > 0
        /\ InPlace(p)
        /\ IsPrefix(base_dir, p.dir) /\ ArchiveDir # base_dir
        /\ ~InArchive(p)

\* C8: a failure on one file is caught and the walk goes on: when
\* process_directory ends every JSON file under the directory has been
\* attempted, and process_directory never raises because of a file.
C8_WalkContinues ==
    /\ pc # "raised"
    /\ pc = "done" => \A p \in JsonFiles : Attempted(p)

\* a file of the first directory failed, and a file of a later directory
\* was loaded and archived after it
C8_Witness ==
    /\ pc = "done"
    /\ \E p, q \in JsonFiles :
          /\ p.dir = base_dir /\ q.dir # base_dir
          /\ outcome[p] \in {"JSONDecodeError", "IOError", "DatabaseError",
                             "ArchiveError"}
          /\ outcome[q] = "ok"

\* the directory of p relative to base_dir
RelDir(p) == SubSeq(p.dir, Len(base_dir) + 1, Len(p.dir))

\* C12: a loaded file is archived under the archive root at the path it had
\* under the staging root, so files of different subdirectories never share
\* an archive path, whatever their base names.
C12_ArchiveKeepsRelativePath ==
    \A p \in JsonFiles :
        outcome[p] = "ok" =>
            LET dst == Join(ArchiveDir \o RelDir(p), p.name)
            IN  dst \in DOMAIN fs /\ fs[dst].orig = p

LoadErrors == {"IOError", "JSONDecodeError", "DatabaseError"}
\* the fault makes a step of the call fail
Fails(content, trunc, fault) ==
    \/ ~content.valid
    \/ fault \in {"io", "insert", "commit"}
    \/ trunc /\ fault = "truncate"

\* C21: a load_json_to_table call that fails at the read, the parse, the
\* truncate or the insert (also the insert that follows the truncate of the
\* same call) raises to its caller and leaves the committed rows of the
\* table as they were before the call; in the walk, a file whose load
\* failed changes neither the table nor the files.
C21_LoadAtomic ==
    /\ [](\A p \in DOMAIN fs, fault \in LoadFaults :
            LET r == LoadJsonToTable(table, fs[p], p, truncate, fault)
            IN  Fails(fs[p], truncate, fault) =>
                    /\ ~r.ok
                    /\ r.err \in LoadErrors
                    /\ r.table = table
                    /\ ~r.truncated)
    /\ [][\A p \in DOMAIN outcome :
            (outcome[p] = "pending" /\ outcome'[p] \in LoadErrors) =>
                /\ table' = table
                /\ truncs' = truncs
                /\ fs' = fs]_vars
C21_Witness ==
    \E p \in ValidFiles :
        /\ outcome[p] = "DatabaseError"
        /\ truncate
        /\ Len(table) > 0
        /\ truncs = 0
        /\ InPlace(p)

\* C20: a second process_directory call, truncate not set, inserts a row only
\* for files the first call did not archive; after a first call that loaded
\* and archived every file it leaves the table as it was, whatever the path
\* of the staging directory.
C20_RerunSkipsArchived ==
    prev.ran =>
        /\ \A p \in DOMAIN outcome :
              Committed(p) => prev.outcome[staged0[p].orig] # "ok"
        /\ (pc = "done"
              /\ \A q \in DOMAIN prev.outcome :
                    EndsWithJson(q.name) => prev.outcome[q] = "ok") =>
                Len(table) = prev.rows

(***************************************************************************)
(* Detail loop: doc_api.process_campsites_details                          *)
(***************************************************************************)
Ids == {"A", "B", "C"}
NoId == [has |-> FALSE, assetId |-> "-"]
Elems == {[has |-> TRUE, assetId |-> i] : i \in Ids} \cup {NoId}
SeqsUpTo(S, n) == UNION {[1..k -> S] : k \in 0..n}

\* what json.load(f) can give: a list of campsites, a dict holding the list
\* under 'data', a dict without 'data', or an exception (unreadable file)
Payloads ==
    {[kind |-> k, elems |-> e] : k \in {"list", "dict_data"},
                                 e \in SeqsUpTo(Elems, MaxListing)}
    \cup {[kind |-> k, elems |-> <<>>] : k \in {"dict_other", "bad_file"}}

HasAssetId(campsite) == campsite.has

\* a variant that loses the last campsite of the listing
ExtractAssetIds_DropLast(data) ==
    LET withId == SelectSeq(data.elems, HasAssetId)
        n == Len(withId)
    IN  IF data.kind \in {"list", "dict_data"} /\ n > 0
        THEN [i \in 1..(n - 1) |-> withId[i].assetId]
        ELSE <<>>

\* the asset_ids list process_campsites_details builds
ExtractAssetIds(data) ==
    IF data.kind \in {"list", "dict_data"}
    THEN LET withId == SelectSeq(data.elems, HasAssetId)
         IN  [i \in 1..Len(withId) |-> withId[i].assetId]
    ELSE <<>>

\* DBConnection.execute_query for a SELECT: the rows, or None on any error
ExecuteQuery(fault, rows) ==
    IF fault THEN [none |-> TRUE, rows |-> {}]
    ELSE [none |-> FALSE, rows |-> rows]

InitDelta ==
    /\ payload \in Payloads
    /\ loaded_ids \in SUBSET Ids
    /\ db_fault \in BOOLEAN
    /\ asset_ids = <<>>
    /\ fetched = <<>>
    /\ results = <<>>
    /\ dpc = "start"

\* open, json.load and the extraction of the asset ids; an exception ends
\* the function in its except clause
ReadListing ==
    /\ dpc = "start"
    /\ asset_ids' = ExtractAssetIds(payload)
    /\ dpc' = IF payload.kind = "bad_file" THEN "done" ELSE "loop"
    /\ UNCHANGED <<payload, loaded_ids, db_fault, fetched, results>>

\* what can happen inside one get_doc call: the detail is fetched and saved,
\* the fetch gives None, the save gives None, or something raises
DetailEvents == {"saved", "fetch_failed", "save_failed", "exception"}

\* a get_doc whose except clause lets the exception through
GetDoc_Reraise(ev) ==
    IF ev = "saved" THEN "path"
    ELSE IF ev = "exception" THEN "raise"
    ELSE "None"

\* get_doc as its caller sees it: the saved file's path, or None (also from
\* its except clause)
GetDoc(ev) == IF ev = "saved" THEN "path" ELSE "None"

\* one iteration of `for asset_id in asset_ids`: get_doc_campsite_detail
\* returns the saved file's path, or None; an exception out of it would end
\* the loop in the function's except clause
FetchDetail(ev) ==
    /\ dpc = "loop"
    /\ Len(fetched) < Len(asset_ids)
    /\ fetched' = Append(fetched, asset_ids[Len(fetched) + 1])
    /\ results' = Append(results, GetDoc(ev))
    /\ dpc' = IF GetDoc(ev) = "raise" THEN "done" ELSE dpc
    /\ UNCHANGED <<payload, loaded_ids, db_fault, asset_ids>>

FinishDetails ==
    /\ dpc = "loop"
    /\ Len(fetched) = Len(asset_ids)
    /\ dpc' = "done"
    /\ UNCHANGED <<payload, loaded_ids, db_fault, asset_ids, fetched, results>>

FetchAnyDetail == \E ev \in DetailEvents : FetchDetail(ev)

\* ---- what the claims speak of
ListingIds == {e.assetId : e \in {x \in Range(payload.elems) : x.has}}
Lookup == ExecuteQuery(db_fault, loaded_ids)
LookupIds == IF Lookup.none THEN {} ELSE Lookup.rows
Times(i, s) == Cardinality({k \in 1..Len(s) : s[k] = i})

\* C3: the identifiers selected for detail fetching are exactly the listing's
\* assetIds that are not in loaded_ids.
C3_DeltaIsDifference ==
    dpc = "done" => Range(fetched) = ListingIds \ loaded_ids

\* C4: within one run a detail fetch is issued at most once per identifier,
\* and never for an identifier that is already loaded.
C4_AtMostOnceNeverLoaded ==
    \A i \in Ids :
        /\ Times(i, fetched) <= 1
        /\ i \in loaded_ids => Times(i, fetched) = 0

\* C5: when the lookup of loaded identifiers yields nothing (no rows, or the
\* query failed and gave None), the delta is the full set of listing
\* identifiers; it is never empty for a non-empty listing.
C5_EmptyLookupFetchesAll ==
    (dpc = "done" /\ payload.kind \in {"list", "dict_data"}
        /\ (Lookup.none \/ Lookup.rows = {})) =>
        /\ Range(fetched) = ListingIds
        /\ ListingIds # {} => fetched # <<>>

\* the query failed although the database holds ids, and every listing id
\* was fetched
C5_Witness ==
    /\ dpc = "done"
    /\ Lookup.none
    /\ loaded_ids # {}
    /\ Cardinality(ListingIds) >= 2
    /\ Range(fetched) = ListingIds

\* C14: a detail fetch or save that fails for one identifier is skipped: when
\* the loop ends, a detail fetch has been attempted for every identifier of
\* the listing, in order, whatever the earlier ones returned.
C14_FailureSkipped ==
    (dpc = "done" /\ payload.kind # "bad_file") =>
        /\ fetched = ExtractAssetIds(payload)
        /\ Len(results) = Len(fetched)

\* the first detail failed and the next ones were still fetched
C14_Witness ==
    /\ dpc = "done"
    /\ Len(fetched) >= 3
    /\ results[1] = "None"
    /\ results[2] = "path"
    /\ results[3] = "None"

(***************************************************************************)
(* One fetch: APIClient.get_data_json (api_client.py and utils.py) over a  *)
(* session whose adapter carries Retry(total=max_retries,                  *)
(* status_forcelist=[429, 500, 502, 503, 504])                             *)
(***************************************************************************)
max_retries == 3
status_forcelist == {429, 500, 502, 503, 504}
Statuses == {200, 404, 429, 503}

Http(s, j) == [kind |-> "http", status |-> s, json_ok |-> j]
NetErr(k) == [kind |-> k, status |-> 0, json_ok |-> FALSE]
\* what the server (or the network) can answer to one attempt
Responses ==
    {Http(200, TRUE), Http(200, FALSE)}
    \cup {Http(s, FALSE) : s \in Statuses \ {200}}
    \cup {NetErr("timeout"), NetErr("connection"), NetErr("redirect_loop")}

\* a policy that gives up one attempt early
RetryExhausted_OffByOne(t) == t <= 0

\* urllib3 Retry.is_exhausted, on the counter after Retry.increment
RetryExhausted(t) == t < 0

\* the attempt is one Retry handles: a status of the forcelist, a timeout or
\* a connection error
Retryable(resp) ==
    \/ resp.kind = "http" /\ resp.status \in status_forcelist
    \/ resp.kind \in {"timeout", "connection"}

Exc(name, isReq, isValue) ==
    [name |-> name, request_exception |-> isReq, value_error |-> isValue]

\* the exception the session raises once the retries are used up
ExhaustedExc(resp) ==
    IF resp.kind = "http" THEN Exc("RetryError", TRUE, FALSE)
    ELSE Exc("ConnectionError", TRUE, FALSE)

\* the exception Response.json() raises on a malformed body: requests'
\* JSONDecodeError (a RequestException and a ValueError) where the installed
\* requests has it, a plain ValueError where it has not
JsonExc(wraps) ==
    IF wraps THEN Exc("JSONDecodeError", TRUE, TRUE)
    ELSE Exc("ValueError", FALSE, TRUE)

\* the except clauses of get_data_json: TRUE when the exception is caught
\* (and None returned)
Caught(v, exc) ==
    IF v = "api_client"
    THEN exc.request_exception \/ exc.value_error \/ TRUE
    ELSE exc.request_exception

Fail(exc) == [kind |-> "exc", exc |-> exc]
Body == [kind |-> "body", exc |-> Exc("-", FALSE, FALSE)]

\* response.raise_for_status(); response.json()
Deliver(resp, wraps) ==
    IF resp.kind = "redirect_loop"
    THEN Fail(Exc("TooManyRedirects", TRUE, FALSE))
    ELSE IF resp.status >= 400 THEN Fail(Exc("HTTPError", TRUE, FALSE))
    ELSE IF ~resp.json_ok THEN Fail(JsonExc(wraps))
    ELSE Body

InitFetch ==
    /\ variant \in {"api_client", "utils"}
    /\ wraps_json \in BOOLEAN
    /\ format_ok \in BOOLEAN
    /\ (variant = "utils" => format_ok)
    /\ history = <<>>
    /\ total = max_retries
    /\ fpc = "start"
    /\ ret = "none"

\* the end of get_data_json on an exception
Handle(exc) ==
    /\ fpc' = IF Caught(variant, exc) THEN "returned" ELSE "raised"
    /\ ret' = IF Caught(variant, exc) THEN "None" ELSE exc.name

\* url.format(**kwargs) (api_client.py only), up to session.get
StartFetch ==
    /\ fpc = "start"
    /\ IF format_ok
       THEN fpc' = "sending" /\ ret' = ret
       ELSE Handle(Exc("KeyError", FALSE, FALSE))
    /\ UNCHANGED <<variant, wraps_json, format_ok, history, total>>

\* one HTTP attempt of session.get and what follows it
Attempt(resp) ==
    /\ fpc = "sending"
    /\ history' = Append(history, resp)
    /\ IF Retryable(resp)
       THEN /\ total' = total - 1
            /\ IF RetryExhausted(total - 1)
               THEN Handle(ExhaustedExc(resp))
               ELSE fpc' = "sending" /\ ret' = ret
       ELSE /\ total' = total
            /\ LET d == Deliver(resp, wraps_json) IN
               IF d.kind = "body"
               THEN fpc' = "returned" /\ ret' = "body"
               ELSE Handle(d.exc)
    /\ UNCHANGED <<variant, wraps_json, format_ok>>

AnyAttempt == \E resp \in Responses : Attempt(resp)

\* ---- what the claims speak of
All503(s) == \A k \in 1..Len(s) : s[k] = Http(503, FALSE)
Ended == fpc \in {"returned", "raised"}

C10_NeverRaises ==
    /\ fpc # "raised"
    /\ (fpc = "returned" /\ ret # "body") => ret = "None"

\* C19: a 4xx answer other than 429, or a 2xx answer whose body is not
\* JSON, is not retried: the fetch makes exactly one request and returns the
\* failure value.
C19_NoRetryOnClientError ==
    (Len(history) >= 1
        /\ history[1] \in {Http(404, FALSE), Http(200, FALSE)}) =>
        /\ Len(history) = 1
        /\ fpc = "returned"
        /\ ret = "None"

(***************************************************************************)
(* File Store: utils.save_response_to_file, and the JSON text json.dump   *)
(* writes and json.load reads                                             *)
(***************************************************************************)
MaxItems == 2      \* elements of a JSON array, members of a JSON object

\* JSON values; a string is its sequence of characters, an object its
\* sequence of <<key, value>> members
Null == [t |-> "null"]
Bool(b) == [t |-> "bool", bool |-> b]
Num(n) == [t |-> "int", int |-> n]
Float(whole, frac) == [t |-> "float", float |-> <<whole, frac>>]
Str(chars) == [t |-> "str", str |-> chars]
List(items) == [t |-> "list", list |-> items]
Dict(members) == [t |-> "dict", dict |-> members]

Atoms ==
    {Null, Bool(TRUE), Bool(FALSE), Num(0), Num(-12), Float(1, 5),
     Str(<<>>), Str(<<"a", "\"">>), Str(<<"\\", "nl">>), Str(<<"e_acute", "n">>)}
Keys == {<<"a">>, <<"\"", "nl">>}
KeySeqs == {ks \in SeqsUpTo(Keys, MaxItems) :
               \A i, j \in 1..Len(ks) : i # j => ks[i] # ks[j]}
DictsOf(S) ==
    UNION {{Dict([i \in 1..Len(ks) |-> <<ks[i], vs[i]>>]) :
               vs \in [1..Len(ks) -> S]} : ks \in KeySeqs}
ListsOf(S) == {List(items) : items \in SeqsUpTo(S, MaxItems)}
Flat == ListsOf(Atoms) \cup DictsOf(Atoms)
Nested ==
    {Dict(<<<<(<<"a">>), x>>>>) : x \in Flat} \cup {List(<<x>>) : x \in Flat}
JsonValues == Atoms \cup Flat \cup Nested

RECURSIVE Flatten(_)
Flatten(ss) == IF ss = <<>> THEN <<>> ELSE Head(ss) \o Flatten(Tail(ss))

Digit == <<"0", "1", "2", "3", "4", "5", "6", "7", "8", "9">>
IsDigit(tok) == \E d \in 1..Len(Digit) : Digit[d] = tok
DigitVal(tok) == (CHOOSE d \in 1..Len(Digit) : Digit[d] = tok) - 1

\* json.encoder py_encode_basestring_ascii (ensure_ascii is the default)
Escape(c) ==
    CASE c = "\"" -> <<"\\", "\"">>
      [] c = "\\" -> <<"\\", "\\">>
      [] c = "nl" -> <<"\\", "n">>
      [] c = "e_acute" -> <<"\\", "u", "00e9">>
      [] OTHER -> <<c>>
DumpStr(chars) ==
    <<"\"">> \o Flatten([i \in 1..Len(chars) |-> Escape(chars[i])]) \o <<"\"">>

RECURSIVE Digits(_)
Digits(n) ==
    IF n < 10 THEN <<Digit[n + 1]>>
    ELSE Digits(n \div 10) \o <<Digit[(n % 10) + 1]>>
DumpInt(n) == IF n < 0 THEN <<"-">> \o Digits(-n) ELSE Digits(n)

\* the line break and the indentation json.dump puts before an element
NewlineIndent(indent, level) == <<"nl">> \o [i \in 1..(indent * level) |-> "sp"]

\* a variant of Dump that writes a string's characters unescaped
RECURSIVE Dump_RawStr(_, _, _)
Dump_RawStr(obj, indent, level) ==
    CASE obj.t = "null" -> <<"null">>
      [] obj.t = "bool" -> IF obj.bool THEN <<"true">> ELSE <<"false">>
      [] obj.t = "int" -> DumpInt(obj.int)
      [] obj.t = "float" -> DumpInt(obj.float[1]) \o <<".">> \o Digits(obj.float[2])
      [] obj.t = "str" -> <<"\"">> \o obj.str \o <<"\"">>
      [] obj.t = "list" ->
            IF obj.list = <<>> THEN <<"[", "]">>
            ELSE <<"[">>
                 \o Flatten([i \in 1..Len(obj.list) |->
                        NewlineIndent(indent, level + 1)
                        \o Dump_RawStr(obj.list[i], indent, level + 1)
                        \o (IF i < Len(obj.list) THEN <<",">> ELSE <<>>)])
                 \o NewlineIndent(indent, level) \o <<"]">>
      [] obj.t = "dict" ->
            IF obj.dict = <<>> THEN <<"{", "}">>
            ELSE <<"{">>
                 \o Flatten([i \in 1..Len(obj.dict) |->
                        NewlineIndent(indent, level + 1)
                        \o DumpStr(obj.dict[i][1]) \o <<":", "sp">>
                        \o Dump_RawStr(obj.dict[i][2], indent, level + 1)
                        \o (IF i < Len(obj.dict) THEN <<",">> ELSE <<>>)])
                 \o NewlineIndent(indent, level) \o <<"}">>

\* json.dump(obj, f, indent=indent): the characters written
RECURSIVE Dump(_, _, _)
Dump(obj, indent, level) ==
    CASE obj.t = "null" -> <<"null">>
      [] obj.t = "bool" -> IF obj.bool THEN <<"true">> ELSE <<"false">>
      [] obj.t = "int" -> DumpInt(obj.int)
      [] obj.t = "float" -> DumpInt(obj.float[1]) \o <<".">> \o Digits(obj.float[2])
      [] obj.t = "str" -> DumpStr(obj.str)
      [] obj.t = "list" ->
            IF obj.list = <<>> THEN <<"[", "]">>
            ELSE <<"[">>
                 \o Flatten([i \in 1..Len(obj.list) |->
                        NewlineIndent(indent, level + 1)
                        \o Dump(obj.list[i], indent, level + 1)
                        \o (IF i < Len(obj.list) THEN <<",">> ELSE <<>>)])
                 \o NewlineIndent(indent, level) \o <<"]">>
      [] obj.t = "dict" ->
            IF obj.dict = <<>> THEN <<"{", "}">>
            ELSE <<"{">>
                 \o Flatten([i \in 1..Len(obj.dict) |->
                        NewlineIndent(indent, level + 1)
                        \o DumpStr(obj.dict[i][1]) \o <<":", "sp">>
                        \o Dump(obj.dict[i][2], indent, level + 1)
                        \o (IF i < Len(obj.dict) THEN <<",">> ELSE <<>>)])
                 \o NewlineIndent(indent, level) \o <<"}">>

\* json.load: the scanner of json.decoder over the characters of the file
IsSpace(tok) == tok \in {"sp", "nl"}
RECURSIVE SkipWs(_, _)
SkipWs(toks, i) ==
    IF i <= Len(toks) /\ IsSpace(toks[i]) THEN SkipWs(toks, i + 1) ELSE i

Unicode(hex) == IF hex = "00e9" THEN "e_acute" ELSE hex

RECURSIVE ParseStr(_, _, _)
ParseStr(toks, i, acc) ==
    IF i > Len(toks) THEN [val |-> acc, next |-> i, ok |-> FALSE]
    ELSE IF toks[i] = "\"" THEN [val |-> acc, next |-> i + 1, ok |-> TRUE]
    ELSE IF toks[i] = "\\" THEN
        IF toks[i + 1] = "n" THEN ParseStr(toks, i + 2, Append(acc, "nl"))
        ELSE IF toks[i + 1] = "u"
            THEN ParseStr(toks, i + 3, Append(acc, Unicode(toks[i + 2])))
        ELSE ParseStr(toks, i + 2, Append(acc, toks[i + 1]))
    ELSE ParseStr(toks, i + 1, Append(acc, toks[i]))

RECURSIVE ParseDigits(_, _, _)
ParseDigits(toks, i, acc) ==
    IF i <= Len(toks) /\ IsDigit(toks[i])
    THEN ParseDigits(toks, i + 1, acc * 10 + DigitVal(toks[i]))
    ELSE [val |-> acc, next |-> i]

ParseNumber(toks, i) ==
    LET neg == toks[i] = "-"
        w == ParseDigits(toks, IF neg THEN i + 1 ELSE i, 0)
        whole == IF neg THEN -w.val ELSE w.val
    IN  IF w.next <= Len(toks) /\ toks[w.next] = "."
        THEN LET f == ParseDigits(toks, w.next + 1, 0)
             IN  [val |-> Float(whole, f.val), next |-> f.next,
                  ok |-> f.next > w.next + 1]
        ELSE [val |-> Num(whole), next |-> w.next,
              ok |-> w.next > (IF neg THEN i + 1 ELSE i)]

Malformed(i) == [val |-> Null, next |-> i, ok |-> FALSE]

RECURSIVE ParseValue(_, _), ParseItems(_, _, _), ParseMembers(_, _, _)
ParseValue(toks, i0) ==
    LET i == SkipWs(toks, i0)
    IN  IF i > Len(toks) THEN Malformed(i)
        ELSE CASE toks[i] = "null" -> [val |-> Null, next |-> i + 1, ok |-> TRUE]
               [] toks[i] = "true" ->
                     [val |-> Bool(TRUE), next |-> i + 1, ok |-> TRUE]
               [] toks[i] = "false" ->
                     [val |-> Bool(FALSE), next |-> i + 1, ok |-> TRUE]
               [] toks[i] = "\"" ->
                     LET s == ParseStr(toks, i + 1, <<>>)
                     IN  [val |-> Str(s.val), next |-> s.next, ok |-> s.ok]
               [] toks[i] = "[" ->
                     LET j == SkipWs(toks, i + 1)
                     IN  IF j > Len(toks) THEN Malformed(j)
                         ELSE IF toks[j] = "]"
                             THEN [val |-> List(<<>>), next |-> j + 1,
                                   ok |-> TRUE]
                         ELSE ParseItems(toks, j, <<>>)
               [] toks[i] = "{" ->
                     LET j == SkipWs(toks, i + 1)
                     IN  IF j > Len(toks) THEN Malformed(j)
                         ELSE IF toks[j] = "}"
                             THEN [val |-> Dict(<<>>), next |-> j + 1,
                                   ok |-> TRUE]
                         ELSE ParseMembers(toks, j, <<>>)
               [] OTHER -> ParseNumber(toks, i)
ParseItems(toks, i, acc) ==
    LET e == ParseValue(toks, i)
        j == SkipWs(toks, e.next)
    IN  IF ~e.ok \/ j > Len(toks) THEN Malformed(j)
        ELSE IF toks[j] = "," THEN ParseItems(toks, j + 1, Append(acc, e.val))
        ELSE [val |-> List(Append(acc, e.val)), next |-> j + 1,
              ok |-> toks[j] = "]"]
ParseMembers(toks, i, acc) ==
    LET k == SkipWs(toks, i)
        key == IF k <= Len(toks) /\ toks[k] = "\""
               THEN ParseStr(toks, k + 1, <<>>)
               ELSE [val |-> <<>>, next |-> k, ok |-> FALSE]
        c == SkipWs(toks, key.next)
        e == IF key.ok /\ c <= Len(toks) /\ toks[c] = ":"
             THEN ParseValue(toks, c + 1)
             ELSE Malformed(c)
        j == SkipWs(toks, e.next)
    IN  IF ~e.ok \/ j > Len(toks) THEN Malformed(j)
        ELSE IF toks[j] = ","
            THEN ParseMembers(toks, j + 1, Append(acc, <<key.val, e.val>>))
        ELSE [val |-> Dict(Append(acc, <<key.val, e.val>>)), next |-> j + 1,
              ok |-> toks[j] = "}"]

\* json.load(f): the value, or JSONDecodeError for text that is not one value
Load(toks) ==
    LET r == ParseValue(toks, 1)
    IN  IF r.ok /\ SkipWs(toks, r.next) > Len(toks)
        THEN [exc |-> "none", val |-> r.val]
        ELSE [exc |-> "JSONDecodeError", val |-> Null]

\* the disk: the directories that exist and the text of each file
Prefixes(path) == {SubSeq(path, 1, k) : k \in 0..Len(path)}
Put(files, k, text) ==
    [x \in DOMAIN files \cup {k} |-> IF x = k THEN text ELSE files[x]]
IOFaults == {"none", "mkdir", "open", "write"}
OSErrors == {"OSError", "PermissionError", "FileExistsError"}

\* Path.mkdir(parents=True, exist_ok=True)
Mkdir(dirs, path, fault) ==
    IF fault = "mkdir" THEN [exc |-> "PermissionError", dirs |-> dirs]
    ELSE [exc |-> "none", dirs |-> dirs \cup Prefixes(path)]

NoFile == [none |-> TRUE, path |-> [dir |-> <<>>, name |-> <<>>]]
File(path) == [none |-> FALSE, path |-> path]

\* mkdir, open(saved_file, 'w') and json.dump(response_data, f, indent=indent)
WriteJson(dsk, data, data_path, file_name, indent, fault) ==
    LET made == Mkdir(dsk.dirs, data_path, fault)
        json_path == [dir |-> data_path, name |-> file_name]
        text == Dump(data, indent, 0)
    IN  IF made.exc # "none"
        THEN [exc |-> made.exc, path |-> json_path, disk |-> dsk]
        ELSE IF fault = "open"
        THEN [exc |-> "PermissionError", path |-> json_path,
              disk |-> [dsk EXCEPT !.dirs = made.dirs]]
        ELSE IF fault = "write"
        THEN [exc |-> "OSError", path |-> json_path,
              disk |-> [dirs |-> made.dirs,
                        files |-> Put(dsk.files, json_path,
                                      SubSeq(text, 1, Len(text) \div 2))]]
        ELSE [exc |-> "none", path |-> json_path,
              disk |-> [dirs |-> made.dirs,
                        files |-> Put(dsk.files, json_path, text)]]

\* Path(WORKSPACE_ROOT) / 'api' / 'data' / 'raw'
WorkspaceRaw == <<"/", "ws", "api", "data", "raw">>

\* pathlib's base / path: an absolute path replaces the base
PathJoin(base, path) ==
    IF path # <<>> /\ path[1] = "/" THEN path ELSE base \o path

\* utils.save_response_to_file: except Exception catches every error
SaveResponseToFile(dsk, data, file_path, file_name, fault) ==
    LET w == WriteJson(dsk, data, PathJoin(WorkspaceRaw, file_path),
                       file_name, 2, fault)
    IN  [ret |-> IF w.exc = "none" THEN File(w.path) ELSE NoFile,
         raised |-> "none",
         disk |-> w.disk]

(***************************************************************************)
(* DOC client: doc_api.DOCAPIClient, get_doc, APIClient.save_response_to_file *)
(***************************************************************************)
MaxCalls == 2      \* get_doc calls of one run
MaxSec == 1        \* seconds of a day the clock can show after the first

UrlNames == {"campsites", "campsites_detail"}

\* what DOCAPIClient finds: the config file, its keys, the environment
GoodEnv ==
    [file |-> TRUE, doc |-> TRUE, data_directory |-> TRUE,
     api_key_env_var |-> TRUE, env_set |-> TRUE, headers |-> TRUE,
     urls |-> UrlNames]
Envs ==
    {GoodEnv}
    \cup {[GoodEnv EXCEPT ![f] = FALSE] :
            f \in {"file", "doc", "data_directory", "api_key_env_var",
                   "env_set", "headers"}}
    \cup {[GoodEnv EXCEPT !.urls = u] : u \in {{}, {"campsites"}}}

\* DOCAPIClient._load_config: {} for a missing file, a missing 'doc' key and
\* the KeyError of a missing 'data_directory'
LoadConfig(e) ==
    IF e.file /\ e.doc /\ e.data_directory THEN "doc" ELSE "empty"

\* DOCAPIClient._get_api_key: self.config['api_key_env_var'], then os.getenv
GetApiKey(e, config) ==
    IF config = "empty" \/ ~e.api_key_env_var
    THEN [exc |-> "KeyError", api_key |-> "None"]
    ELSE [exc |-> "none", api_key |-> IF e.env_set THEN "key" ELSE "None"]

\* DOCAPIClient.__init__
DocInit(e) ==
    LET config == LoadConfig(e)
        k == GetApiKey(e, config)
    IN  [built |-> TRUE, exc |-> k.exc, config |-> config, api_key |-> k.api_key]
NotBuilt == [built |-> FALSE, exc |-> "none", config |-> "empty", api_key |-> "None"]

\* DOCAPIClient._get_client
GetClient(c, e, url_name) ==
    IF c.config = "empty" \/ c.api_key = "None"
    THEN [exc |-> "none", client |-> "None"]
    ELSE IF url_name \notin e.urls THEN [exc |-> "none", client |-> "None"]
    ELSE IF ~e.headers THEN [exc |-> "KeyError", client |-> "None"]
    ELSE [exc |-> "none", client |-> "APIClient"]

\* the clock: the day and the second of the day
StartClock == [day |-> 0, sec |-> 0]
Days == {0, 1}

\* config['data_directory'] + '/' + api_name + '/' + url_name
ClientDirectory(url_name) == <<"api", "data", "raw", "doc", url_name>>
\* str(now.year) / month / day
DayDir(clock) == <<Digit[clock.day + 1]>>
\* f'{timestamp}.json', timestamp = now.strftime("%Y_%m_%d_%H_%M_%S")
Timestamp(clock) == <<Digit[clock.day + 1], Digit[clock.sec + 1], "json">>

SaveCatches_DecodeOnly(exc) == exc = "JSONDecodeError"

\* except (IOError, json.JSONDecodeError); IOError is OSError
SaveCatches(exc) == exc \in OSErrors \cup {"JSONDecodeError"}

\* APIClient.save_response_to_file
APIClient_SaveResponseToFile(dsk, data, data_directory, clock, fault) ==
    LET w == WriteJson(dsk, data, data_directory \o DayDir(clock),
                       Timestamp(clock), 4, fault)
    IN  [ret |-> IF w.exc = "none" THEN File(w.path) ELSE NoFile,
         raised |-> IF w.exc = "none" \/ SaveCatches(w.exc)
                    THEN "none" ELSE w.exc,
         disk |-> w.disk]

NoData == [none |-> TRUE, data |-> Null]
Data(d) == [none |-> FALSE, data |-> d]

\* get_doc(url_name, **kwargs), given what get_data_json returns: what it
\* returns, whether it sent a request, and the exception its except caught
GetDocCall(e, dsk, clock, url_name, fetch, fault) ==
    LET c == DocInit(e)
        g == GetClient(c, e, url_name)
        quiet == [ret |-> NoFile, http |-> FALSE, caught |-> "none",
                  save_raised |-> "none", disk |-> dsk]
    IN  IF c.exc # "none" THEN [quiet EXCEPT !.caught = c.exc]
        ELSE IF g.exc # "none" THEN [quiet EXCEPT !.caught = g.exc]
        ELSE IF g.client = "None" THEN quiet
        ELSE IF fetch.none THEN [quiet EXCEPT !.http = TRUE]
        ELSE LET sv == APIClient_SaveResponseToFile(
                           dsk, fetch.data, ClientDirectory(url_name), clock,
                           fault)
             IN  [ret |-> IF sv.raised = "none" THEN sv.ret ELSE NoFile,
                  http |-> TRUE,
                  caught |-> sv.raised,
                  save_raised |-> sv.raised,
                  disk |-> sv.disk]

\* the fetches get_doc_campsites and get_doc_campsite_detail ask for
Requests ==
    {[url_name |-> "campsites", id |-> "-"]}
    \cup {[url_name |-> "campsites_detail", id |-> i] : i \in {"A", "B"}}
DetailOf(id) == Dict(<<<<(<<"assetId">>), Str(<<id>>)>>>>)
ResponseFor(req) ==
    IF req.url_name = "campsites"
    THEN List(<<DetailOf("A"), DetailOf("B")>>)
    ELSE DetailOf(req.id)

\* the methods class DOCAPIClient defines
DocMethods == {"__init__", "_load_config", "_get_api_key", "_get_client"}
\* doc_api.<name>(...) on a DOCAPIClient
CallMethod(name) == IF name \in DocMethods THEN "none" ELSE "AttributeError"
\* PostgresLoader(*args): __init__(self, db_params)
LoaderInit(args) == IF Len(args) = 1 THEN "none" ELSE "TypeError"

Datasets == {"campsites_alerts", "campsites_detail"}
NotStarted == [line |-> 5, uncaught |-> "none", fetched |-> {}, loaded |-> {}]

\* doc_master.py lines 8-10 and 12-14: fetch a dataset, load it if a path
\* came back
DatasetStep(m, method, dataset, dir, next) ==
    IF CallMethod(method) # "none"
    THEN [m EXCEPT !.uncaught = CallMethod(method)]
    ELSE [m EXCEPT !.line = next,
                   !.fetched = @ \cup {dataset},
                   !.loaded = IF dir = "path" THEN @ \cup {dataset} ELSE @]

InitDoc ==
    /\ env \in Envs
    /\ calls = <<>>
    /\ doc_client = NotBuilt
    /\ master = NotStarted
    /\ now = StartClock
    /\ disk = [dirs |-> {<<>>}, files |-> <<>>]

\* a second passes
Tick ==
    /\ now.sec < MaxSec \/ now.day + 1 \in Days
    /\ now' = IF now.sec < MaxSec THEN [now EXCEPT !.sec = @ + 1]
              ELSE [day |-> now.day + 1, sec |-> 0]
    /\ UNCHANGED <<disk, env, calls, doc_client, master>>

\* one call of get_doc_campsites() or get_doc_campsite_detail(id)
CallGetDoc(req, ok, fault) ==
    /\ Len(calls) < MaxCalls
    /\ LET r == GetDocCall(env, disk, now, req.url_name,
                           IF ok THEN Data(ResponseFor(req)) ELSE NoData, fault)
       IN  /\ calls' = Append(calls, [req |-> req, at |-> now, ret |-> r.ret,
                                      http |-> r.http, caught |-> r.caught])
           /\ disk' = r.disk
    /\ UNCHANGED <<now, env, doc_client, master>>
AnyGetDoc ==
    \E req \in Requests, ok \in BOOLEAN, fault \in IOFaults :
        CallGetDoc(req, ok, fault)

\* the next statement of doc_master.py
MasterStep ==
    /\ master.uncaught = "none"
    /\ master.line \in {5, 6, 8, 12}
    /\ \E dir \in {"None", "path"} :
          master' =
              CASE master.line = 5 ->
                     IF DocInit(env).exc # "none"
                     THEN [master EXCEPT !.uncaught = DocInit(env).exc]
                     ELSE [master EXCEPT !.line = 6]
                [] master.line = 6 ->
                     IF LoaderInit(<<>>) # "none"
                     THEN [master EXCEPT !.uncaught = LoaderInit(<<>>)]
                     ELSE [master EXCEPT !.line = 8]
                [] master.line = 8 ->
                     DatasetStep(master, "get_doc_campsites_alerts",
                                 "campsites_alerts", dir, 12)
                [] master.line = 12 ->
                     DatasetStep(master, "get_doc_campsite_detail",
                                 "campsites_detail", dir, 15)
    /\ doc_client' = IF master.line = 5 THEN DocInit(env) ELSE doc_client
    /\ UNCHANGED <<now, disk, env, calls>>

Saved(i) == ~calls[i].ret.none

\* C11: two fetches that were saved never have the same file path, and the
\* file of every saved fetch still holds that fetch's payload: no later save
\* of the run has replaced it.
C11_DistinctPaths ==
    /\ \A i, j \in 1..Len(calls) :
          (i < j /\ Saved(i) /\ Saved(j)) =>
              calls[i].ret.path # calls[j].ret.path
    /\ \A i \in 1..Len(calls) :
          Saved(i) =>
              disk.files[calls[i].ret.path]
                  = Dump(ResponseFor(calls[i].req), 4, 0)

\* C13: in a run of the orchestrator whose client configuration loads, no
\* exception leaves the script, and a run that reaches the end has fetched
\* every dataset, the later ones whatever became of the earlier ones.
C13_FailureIsolated ==
    doc_client.exc = "none" =>
        /\ master.uncaught = "none"
        /\ master.line = 15 => master.fetched = Datasets

ConfigFailure(e) == ~e.file \/ ~e.doc \/ ~e.env_set

\* C15: with the config file missing, the 'doc' key missing or the API-key
\* variable unset, DOCAPIClient() raises nothing, _get_client gives None for
\* every URL, and no get_doc call sends a request.
C15_ConfigFailureDegrades ==
    ConfigFailure(env) =>
        /\ doc_client.built =>
              /\ doc_client.exc = "none"
              /\ \A u \in UrlNames :
                    GetClient(doc_client, env, u)
                        = [exc |-> "none", client |-> "None"]
        /\ \A i \in 1..Len(calls) : ~calls[i].http

(***************************************************************************)
(* File Store: a save, through utils or through get_doc, and the read back *)
(***************************************************************************)
\* the (file_path, file_name) a caller passes: relative, or absolute as the
\* temporary directory of z.py
StoreTargets ==
    {[file_path |-> <<"doc", "campsites">>, file_name |-> <<"out", "json">>],
     [file_path |-> <<"/", "tmp", "t1">>, file_name |-> <<"test_response", "json">>]}
NoTarget == [file_path |-> <<>>, file_name |-> <<>>]
Savers == {"utils", "get_doc"}
\* where the save puts the file
TargetDir ==
    IF saver = "utils" THEN PathJoin(WorkspaceRaw, target.file_path)
    ELSE ClientDirectory("campsites") \o DayDir(now)
TargetFile ==
    [dir |-> TargetDir,
     name |-> IF saver = "utils" THEN target.file_name ELSE Timestamp(now)]
StaleText == <<"[", "nl", "sp", "sp", "0", ",", "nl", "sp", "sp", "0", "nl", "]">>

\* the disk before the save: only the root exists, or the parent of dir,
\* or dir itself, empty or holding an earlier file of that name
Disks(dir, file) ==
    {[dirs |-> Prefixes(SubSeq(dir, 1, k)), files |-> <<>>] :
        k \in {1, Len(dir) - 1, Len(dir)}}
    \cup {[dirs |-> Prefixes(dir), files |-> Put(<<>>, file, StaleText)]}

NoRead == [done |-> FALSE, exc |-> "none", val |-> Null]

InitStore ==
    /\ response_data \in JsonValues
    /\ saver \in Savers
    /\ target \in IF saver = "utils" THEN StoreTargets ELSE {NoTarget}
    /\ now = StartClock
    /\ disk \in Disks(TargetDir, TargetFile)
    /\ save_out = [raised |-> "none", caught |-> "none"]
    /\ disk0 = disk
    /\ saved_file = NoFile
    /\ io_fault = "none"
    /\ readback = NoRead
    /\ spc = "start"

\* save_response_to_file(response_data, file_path, file_name)
Save(fault) ==
    /\ spc = "start"
    /\ saver = "utils"
    /\ LET r == SaveResponseToFile(disk, response_data, target.file_path,
                                   target.file_name, fault)
       IN  /\ saved_file' = r.ret
           /\ disk' = r.disk
           /\ save_out' = [raised |-> r.raised, caught |-> "none"]
    /\ io_fault' = fault
    /\ spc' = "saved"
    /\ UNCHANGED <<response_data, target, disk0, readback, saver, now>>
SaveAny == \E fault \in IOFaults : Save(fault)

\* get_doc('campsites') when get_data_json returned response_data
GetDocSave(fault) ==
    /\ spc = "start"
    /\ saver = "get_doc"
    /\ LET r == GetDocCall(GoodEnv, disk, now, "campsites",
                           Data(response_data), fault)
       IN  /\ saved_file' = r.ret
           /\ disk' = r.disk
           /\ save_out' = [raised |-> r.save_raised, caught |-> r.caught]
    /\ io_fault' = fault
    /\ spc' = "saved"
    /\ UNCHANGED <<response_data, target, disk0, readback, saver, now>>
GetDocSaveAny == \E fault \in IOFaults : GetDocSave(fault)

\* with open(saved_file) as f: json.load(f), on the path the save returned
ReadBack ==
    /\ spc = "saved"
    /\ ~saved_file.none
    /\ LET r == Load(disk.files[saved_file.path])
       IN  readback' = [done |-> TRUE, exc |-> r.exc, val |-> r.val]
    /\ spc' = "read"
    /\ UNCHANGED <<response_data, target, disk, disk0, saved_file, io_fault,
                   saver, now, save_out>>

\* C16: a payload saved by the File Store and read back from the path the
\* save returned parses to a value equal to the payload, and a save that
\* meets no I/O error returns that path, whether or not the directory (or
\* its parents, or a file of that name) existed before.
C16_RoundTrip ==
    /\ (spc # "start" /\ io_fault = "none") =>
          /\ ~saved_file.none
          /\ saved_file.path = TargetFile
          /\ TargetDir \in disk.dirs
    /\ readback.done =>
          /\ readback.exc = "none"
          /\ readback.val = response_data
C16_Witness ==
    /\ saver = "utils"
    /\ readback.done
    /\ response_data \in Nested
    /\ TargetDir \notin disk0.dirs

\* C17: a save that meets an I/O error (the directory cannot be created, the
\* file cannot be opened or written) returns None and raises nothing, in
\* utils.save_response_to_file and in APIClient.save_response_to_file, and
\* get_doc then returns None without its except clause being reached; a save
\* that meets none returns the path of the file, which holds the payload.
C17_SaveFailureReturned ==
    spc \in {"saved", "read"} =>
        /\ save_out.raised = "none"
        /\ save_out.caught = "none"
        /\ io_fault # "none" => saved_file.none
        /\ io_fault = "none" =>
              /\ saved_file = File(TargetFile)
              /\ TargetFile \in DOMAIN disk.files
              /\ disk.files[TargetFile]
                    = Dump(response_data, IF saver = "utils" THEN 2 ELSE 4, 0)
C17_Witness ==
    /\ spc = "saved"
    /\ saver = "get_doc"
    /\ io_fault = "write"
    /\ saved_file.none
    /\ response_data \in Flat

(***************************************************************************)
(* Scoped resources: APIClient and DBConnection as context managers, and  *)
(* the try/finally of load_to_postgres.main                               *)
(***************************************************************************)
MaxSteps == 3      \* statements of a scope's body

Sessions == {"utils.APIClient", "api_client.APIClient"}
Scopes == Sessions \cup {"DBConnection", "PostgresLoader.main"}

\* psycopg2.connect fails, or it succeeds and creating the cursor fails
\* (the connection is then open, without a cursor)
Held == {"open", "no_cursor"}
Connects == {"ok", "connect_error", "cursor_error"}

\* what the scope holds once entered: APIClient.__init__ made the session;
\* DBConnection.__enter__ calls connect(), which returns False on an error;
\* main calls loader.connect(), which re-raises it
Acquire(kind, how) ==
    IF kind \in Sessions \/ how = "ok" THEN [res |-> "open", exc |-> "none"]
    ELSE [res |-> IF how = "cursor_error" THEN "no_cursor" ELSE "none",
          exc |-> IF kind = "DBConnection" THEN "none" ELSE "Error"]

Release_UnlessRaised(r, exc) ==
    IF r \in Held /\ exc = "none" THEN "closed" ELSE r

\* __exit__: self.session.close(), self.disconnect(); finally: disconnect()
Release(r, exc) == IF r \in Held THEN "closed" ELSE r

\* the exception that leaves the scope: __exit__ returns None, main's
\* except Exception logs it
Propagated(kind, exc) == IF kind = "PostgresLoader.main" THEN "none" ELSE exc

BodyEvents == {"ok", "failure", "exception"}

InitScope ==
    /\ scope \in Scopes
    /\ res = "none"
    /\ trail = <<>>
    /\ pending = "none"
    /\ xpc = "new"
    /\ db_rows = 0
    /\ inserts = <<>>

\* with ... as ...: / try: loader.connect()
Enter(how) ==
    /\ xpc = "new"
    /\ res' = Acquire(scope, how).res
    /\ pending' = Acquire(scope, how).exc
    /\ xpc' = IF Acquire(scope, how).exc = "none" THEN "body" ELSE "exiting"
    /\ UNCHANGED <<scope, trail, db_rows, inserts>>
EnterAny == \E how \in Connects : Enter(how)

\* a statement of the body: it succeeds, returns a failure value, or raises
BodyStep(ev) ==
    /\ xpc = "body"
    /\ Len(trail) < MaxSteps
    /\ ev = "ok" => res = "open"
    /\ trail' = Append(trail, ev)
    /\ pending' = IF ev = "exception" THEN "Exception" ELSE "none"
    /\ xpc' = IF ev = "exception" THEN "exiting" ELSE "body"
    /\ UNCHANGED <<scope, res, db_rows, inserts>>
AnyBodyStep == \E ev \in BodyEvents : BodyStep(ev)

\* DBConnection.execute_query for a statement that is not a SELECT: the
\* rows committed afterwards, what it returns, the exception that leaves it
ExecuteUpdate(rows, r, fault) ==
    [rows |-> IF r = "open" /\ fault = "none" THEN rows + 1 ELSE rows,
     ret |-> "None",
     exc |-> "none"]

\* DBConnection.insert_data
InsertData(rows, r, fault) ==
    LET q == ExecuteUpdate(rows, r, fault)
    IN  [rows |-> q.rows, ret |-> q.exc = "none"]

\* db.insert_data(table_name, data) in the body of a DBConnection scope
InsertStep(fault) ==
    /\ xpc = "body"
    /\ scope = "DBConnection"
    /\ Len(trail) < MaxSteps
    /\ LET i == InsertData(db_rows, res, fault)
       IN  /\ db_rows' = i.rows
           /\ inserts' = Append(inserts, [ret |-> i.ret,
                                          committed |-> i.rows = db_rows + 1])
           /\ trail' = Append(trail, IF i.rows = db_rows + 1 THEN "ok"
                                     ELSE "failure")
    /\ UNCHANGED <<scope, res, pending, xpc>>
AnyInsert == \E fault \in {"none", "execute", "commit"} : InsertStep(fault)

\* the body ends or returns
Leave ==
    /\ xpc = "body"
    /\ xpc' = "exiting"
    /\ UNCHANGED <<scope, res, trail, pending, db_rows, inserts>>

\* __exit__ / finally
Exit ==
    /\ xpc = "exiting"
    /\ res' = Release(res, pending)
    /\ pending' = Propagated(scope, pending)
    /\ xpc' = "done"
    /\ UNCHANGED <<scope, trail, db_rows, inserts>>

C22_InsertReportsFailure ==
    \A i \in 1..Len(inserts) : inserts[i].ret = inserts[i].committed

(***************************************************************************)
(* Idle values of the parts a specification does not exercise              *)
(***************************************************************************)
IdleLoad ==
    /\ prev = NoPrev
    /\ base_dir = <<"data", "raw", "doc">>
    /\ truncate = FALSE
    /\ staged0 = <<>>
    /\ fs = <<>>
    /\ table = <<>>
    /\ outcome = <<>>
    /\ truncs = 0
    /\ pc = "idle"
    /\ root = <<>>
    /\ listing = {}
    /\ dirsLeft = {}

IdleDelta ==
    /\ payload = [kind |-> "list", elems |-> <<>>]
    /\ loaded_ids = {}
    /\ db_fault = FALSE
    /\ asset_ids = <<>>
    /\ fetched = <<>>
    /\ results = <<>>
    /\ dpc = "idle"

IdleFetch ==
    /\ variant = "api_client"
    /\ wraps_json = TRUE
    /\ format_ok = TRUE
    /\ history = <<>>
    /\ total = 0
    /\ fpc = "idle"
    /\ ret = "none"

IdleStore ==
    /\ response_data = Null
    /\ target = NoTarget
    /\ disk0 = [dirs |-> {<<>>}, files |-> <<>>]
    /\ saved_file = NoFile
    /\ io_fault = "none"
    /\ readback = NoRead
    /\ spc = "idle"
    /\ saver = "utils"
    /\ save_out = [raised |-> "none", caught |-> "none"]

IdleShared ==
    /\ now = StartClock
    /\ disk = [dirs |-> {<<>>}, files |-> <<>>]

IdleDoc ==
    /\ env = GoodEnv
    /\ calls = <<>>
    /\ doc_client = NotBuilt
    /\ master = NotStarted

IdleScope ==
    /\ scope = "-"
    /\ res = "none"
    /\ trail = <<>>
    /\ pending = "none"
    /\ xpc = "idle"
    /\ db_rows = 0
    /\ inserts = <<>>

IdleOthers == IdleStore /\ IdleShared /\ IdleDoc /\ IdleScope

Init == InitLoad /\ IdleDelta /\ IdleFetch /\ IdleOthers
Next ==
    \/ StartWalk /\ UNCHANGED <<varsDelta, varsFetch, varsStore, varsShared, varsDoc, varsScope>>
    \/ ProcessAnyFile /\ UNCHANGED <<varsDelta, varsFetch, varsStore, varsShared, varsDoc, varsScope>>
    \/ NextDir /\ UNCHANGED <<varsDelta, varsFetch, varsStore, varsShared, varsDoc, varsScope>>
    \/ FinishWalk /\ UNCHANGED <<varsDelta, varsFetch, varsStore, varsShared, varsDoc, varsScope>>
Spec == Init /\ [][Next]_vars

NextR ==
    \/ StartWalk /\ UNCHANGED <<varsDelta, varsFetch, varsStore, varsShared, varsDoc, varsScope>>
    \/ ProcessAnyFile /\ UNCHANGED <<varsDelta, varsFetch, varsStore, varsShared, varsDoc, varsScope>>
    \/ NextDir /\ UNCHANGED <<varsDelta, varsFetch, varsStore, varsShared, varsDoc, varsScope>>
    \/ FinishWalk /\ UNCHANGED <<varsDelta, varsFetch, varsStore, varsShared, varsDoc, varsScope>>
    \/ Rerun /\ UNCHANGED <<varsDelta, varsFetch, varsStore, varsShared, varsDoc, varsScope>>
SpecRerun == Init /\ [][NextR]_vars

InitD == IdleLoad /\ InitDelta /\ IdleFetch /\ IdleOthers
NextD ==
    \/ ReadListing /\ UNCHANGED <<varsLoad, varsFetch, varsStore, varsShared, varsDoc, varsScope>>
    \/ FetchAnyDetail /\ UNCHANGED <<varsLoad, varsFetch, varsStore, varsShared, varsDoc, varsScope>>
    \/ FinishDetails /\ UNCHANGED <<varsLoad, varsFetch, varsStore, varsShared, varsDoc, varsScope>>
SpecDelta == InitD /\ [][NextD]_vars

InitF == IdleLoad /\ IdleDelta /\ InitFetch /\ IdleOthers
NextF ==
    \/ StartFetch /\ UNCHANGED <<varsLoad, varsDelta, varsStore, varsShared, varsDoc, varsScope>>
    \/ AnyAttempt /\ UNCHANGED <<varsLoad, varsDelta, varsStore, varsShared, varsDoc, varsScope>>
SpecFetch == InitF /\ [][NextF]_vars

IdleCode == IdleLoad /\ IdleDelta /\ IdleFetch
InitS == IdleCode /\ InitStore /\ IdleDoc /\ IdleScope
NextS ==
    \/ SaveAny /\ UNCHANGED <<varsLoad, varsDelta, varsFetch, varsDoc, varsScope>>
    \/ GetDocSaveAny
          /\ UNCHANGED <<varsLoad, varsDelta, varsFetch, varsDoc, varsScope>>
    \/ ReadBack /\ UNCHANGED <<varsLoad, varsDelta, varsFetch, varsDoc, varsScope>>
SpecStore == InitS /\ [][NextS]_vars

InitC == IdleCode /\ IdleStore /\ InitDoc /\ IdleScope
NextC ==
    \/ Tick /\ UNCHANGED <<varsLoad, varsDelta, varsFetch, varsStore, varsScope>>
    \/ AnyGetDoc
          /\ UNCHANGED <<varsLoad, varsDelta, varsFetch, varsStore, varsScope>>
    \/ MasterStep
          /\ UNCHANGED <<varsLoad, varsDelta, varsFetch, varsStore, varsScope>>
SpecDoc == InitC /\ [][NextC]_vars

InitX == IdleCode /\ IdleStore /\ IdleShared /\ IdleDoc /\ InitScope
NextX ==
    \/ EnterAny
          /\ UNCHANGED <<varsLoad, varsDelta, varsFetch, varsStore, varsShared,
                         varsDoc>>
    \/ AnyBodyStep
          /\ UNCHANGED <<varsLoad, varsDelta, varsFetch, varsStore, varsShared,
                         varsDoc>>
    \/ AnyInsert
          /\ UNCHANGED <<varsLoad, varsDelta, varsFetch, varsStore, varsShared,
                         varsDoc>>
    \/ Leave
          /\ UNCHANGED <<varsLoad, varsDelta, varsFetch, varsStore, varsShared,
                         varsDoc>>
    \/ Exit
          /\ UNCHANGED <<varsLoad, varsDelta, varsFetch, varsStore, varsShared,
                         varsDoc>>
SpecScope == InitX /\ [][NextX]_vars

====
